---- MODULE Spec2Model ----
(***************************************************************************)
(* Intelligent-Query-Router: the adaptive cost/quality router             *)
(* (DirectOpenAIRouteLLM, RouteLLMDemo), the fixed-category router         *)
(* (DirectOpenAISemanticRouter), the comparison harness                    *)
(* (OAIRouterComparison) and the MetricsCollector.                         *)
(*                                                                         *)
(* Numbers.  The Python code computes in binary floating point; the model  *)
(* computes the same quantities exactly, in integer units:                 *)
(*   - complexity scores before rounding: units of 1/ScoreUnit (1/3000),   *)
(*     so that len(query)/300, 0.1, 0.05 and the base weights are whole;   *)
(*   - reported scores and factors (round(x, 3)): thousandths;             *)
(*   - money before rounding: nano-dollars (1e-9 $), so that one token of  *)
(*     the cheapest model (0.000015 $ per 1000 tokens) is 15 units;        *)
(*   - reported money (round(x, 6)): micro-dollars;                        *)
(*   - latencies: whole milliseconds.                                      *)
(* Text.  A Python str is a sequence of one-character strings; a query is  *)
(* a sequence of text fragments, its text their concatenation.             *)
(***************************************************************************)
EXTENDS Integers, Sequences, FiniteSets, TLC

----------------------------------------------------------------------------
(* Text primitives: str.lower, the `in` substring test, str.count, len.   *)

UpperToLower ==
    ("A" :> "a") @@ ("B" :> "b") @@ ("C" :> "c") @@ ("D" :> "d") @@ ("E" :> "e")
    @@ ("F" :> "f") @@ ("G" :> "g") @@ ("H" :> "h") @@ ("I" :> "i") @@ ("J" :> "j")
    @@ ("K" :> "k") @@ ("L" :> "l") @@ ("M" :> "m") @@ ("N" :> "n") @@ ("O" :> "o")
    @@ ("P" :> "p") @@ ("Q" :> "q") @@ ("R" :> "r") @@ ("S" :> "s") @@ ("T" :> "t")
    @@ ("U" :> "u") @@ ("V" :> "v") @@ ("W" :> "w") @@ ("X" :> "x") @@ ("Y" :> "y")
    @@ ("Z" :> "z")

(* Query fragments: demo queries of the repository and pieces that add     *)
(* technical terms, question marks and overlapping keywords.                *)

Chars ==
    ("What is the capital of France?" :> <<"W","h","a","t"," ","i","s"," ","t","h","e"," ","c","a","p","i","t","a","l"," ","o","f"," ","F","r","a","n","c","e","?">>)
    @@ ("How does a neural network work?" :> <<"H","o","w"," ","d","o","e","s"," ","a"," ","n","e","u","r","a","l"," ","n","e","t","w","o","r","k"," ","w","o","r","k","?">>)
    @@ ("Design a scalable database architecture for high-traffic applications" :> <<"D","e","s","i","g","n"," ","a"," ","s","c","a","l","a","b","l","e"," ","d","a","t","a","b","a","s","e"," ","a","r","c","h","i","t","e","c","t","u","r","e"," ","f","o","r"," ","h","i","g","h","-","t","r","a","f","f","i","c"," ","a","p","p","l","i","c","a","t","i","o","n","s">>)
    @@ (" REST API database " :> <<" ","R","E","S","T"," ","A","P","I"," ","d","a","t","a","b","a","s","e"," ">>)
    @@ ("?" :> <<"?">>)
    @@ ("Show me the list" :> <<"S","h","o","w"," ","m","e"," ","t","h","e"," ","l","i","s","t">>)
    @@ (" debug" :> <<" ","d","e","b","u","g">>)

(* The keyword lists of DirectOpenAIRouteLLM.classify_complexity and its    *)
(* technical terms, and the shorter lists of RouteLLMDemo.                  *)

HighKeywords ==
    << <<"e","x","p","l","a","i","n">>,
       <<"a","n","a","l","y","z","e">>,
       <<"c","o","m","p","a","r","e">>,
       <<"e","v","a","l","u","a","t","e">>,
       <<"d","e","s","i","g","n">>,
       <<"a","r","c","h","i","t","e","c","t">>,
       <<"o","p","t","i","m","i","z","e">>,
       <<"d","e","b","u","g">>,
       <<"r","e","f","a","c","t","o","r">>,
       <<"i","m","p","l","e","m","e","n","t">>,
       <<"d","e","v","e","l","o","p">>,
       <<"b","u","i","l","d">>,
       <<"c","r","e","a","t","e"," ","c","o","m","p","l","e","x">>,
       <<"a","l","g","o","r","i","t","h","m">>,
       <<"s","y","s","t","e","m">> >>

MediumKeywords ==
    << <<"h","o","w">>,
       <<"w","h","y">>,
       <<"d","e","s","c","r","i","b","e">>,
       <<"l","i","s","t">>,
       <<"s","u","m","m","a","r","i","z","e">>,
       <<"c","r","e","a","t","e">>,
       <<"g","e","n","e","r","a","t","e">>,
       <<"w","r","i","t","e">>,
       <<"p","l","a","n">>,
       <<"o","u","t","l","i","n","e">>,
       <<"p","r","o","c","e","s","s">> >>

LowKeywords ==
    << <<"w","h","a","t">>,
       <<"w","h","e","n">>,
       <<"w","h","e","r","e">>,
       <<"w","h","o">>,
       <<"d","e","f","i","n","e">>,
       <<"n","a","m","e">>,
       <<"c","o","u","n","t">>,
       <<"f","i","n","d">>,
       <<"s","h","o","w">>,
       <<"g","e","t">>,
       <<"i","s">>,
       <<"a","r","e">> >>

technical_terms ==
    << <<"A","P","I">>,
       <<"d","a","t","a","b","a","s","e">>,
       <<"a","l","g","o","r","i","t","h","m">>,
       <<"a","r","c","h","i","t","e","c","t","u","r","e">>,
       <<"f","r","a","m","e","w","o","r","k">>,
       <<"o","p","t","i","m","i","z","a","t","i","o","n">>,
       <<"p","e","r","f","o","r","m","a","n","c","e">>,
       <<"s","c","a","l","a","b","i","l","i","t","y">>,
       <<"m","i","c","r","o","s","e","r","v","i","c","e","s">> >>

DemoHighKeywords ==
    << <<"e","x","p","l","a","i","n">>,
       <<"a","n","a","l","y","z","e">>,
       <<"c","o","m","p","a","r","e">>,
       <<"e","v","a","l","u","a","t","e">>,
       <<"d","e","s","i","g","n">>,
       <<"a","r","c","h","i","t","e","c","t">>,
       <<"o","p","t","i","m","i","z","e">>,
       <<"d","e","b","u","g">>,
       <<"r","e","f","a","c","t","o","r">>,
       <<"i","m","p","l","e","m","e","n","t">> >>

DemoMediumKeywords ==
    << <<"h","o","w">>,
       <<"w","h","y">>,
       <<"d","e","s","c","r","i","b","e">>,
       <<"l","i","s","t">>,
       <<"s","u","m","m","a","r","i","z","e">>,
       <<"c","r","e","a","t","e">> >>

DemoLowKeywords ==
    << <<"w","h","a","t">>,
       <<"w","h","e","n">>,
       <<"w","h","e","r","e">>,
       <<"w","h","o">>,
       <<"d","e","f","i","n","e">>,
       <<"n","a","m","e">>,
       <<"c","o","u","n","t">> >>

Lower(s) ==
    [i \in 1..Len(s) |-> IF s[i] \in DOMAIN UpperToLower THEN UpperToLower[s[i]] ELSE s[i]]

Contains(needle, hay) ==
    \E i \in 1..(Len(hay) - Len(needle) + 1) :
        \A j \in 1..Len(needle) : hay[i + j - 1] = needle[j]

CountChar(s, c) == Cardinality({i \in 1..Len(s) : s[i] = c})

CountMatches(words, text) ==
    Cardinality({k \in 1..Len(words) : Contains(words[k], text)})

RECURSIVE Text(_)
Text(q) == IF q = <<>> THEN <<>> ELSE Chars[Head(q)] \o Text(Tail(q))

Min(a, b) == IF a <= b THEN a ELSE b

(* Python's round(x, k) on a value n/d of the finer unit: the nearest       *)
(* multiple, an exact half going to the even neighbour.                     *)
Round(n, d) ==
    LET q == n \div d
        r == n % d
    IN  IF 2 * r < d THEN q
        ELSE IF 2 * r > d THEN q + 1
        ELSE IF q % 2 = 0 THEN q ELSE q + 1

----------------------------------------------------------------------------
(* DirectOpenAIRouteLLM.classify_complexity                                *)

LengthNorm == 300
ScoreUnit == 10 * LengthNorm
Frac(num, den) == (num * ScoreUnit) \div den
Round3(x) == Round(x, ScoreUnit \div 1000)
Milli(x) == x \div (ScoreUnit \div 1000)

Levels == {"high", "medium", "low"}

(* Scores that let the lower tiers leak into the top one.                   *)
keyword_scores_cumulative(query_lower) ==
    LET high   == CountMatches(HighKeywords, query_lower)
        medium == CountMatches(MediumKeywords, query_lower)
        low    == CountMatches(LowKeywords, query_lower)
    IN  [high   |-> high * 800,
         medium |-> (medium + low) * 500,
         low    |-> low * 300]

keyword_scores(query_lower) ==
    [high   |-> CountMatches(HighKeywords, query_lower) * 800,
     medium |-> CountMatches(MediumKeywords, query_lower) * 500,
     low    |-> CountMatches(LowKeywords, query_lower) * 300]

(* A level that looks at the medium keywords first.                         *)
complexity_level_medium_first(scores) ==
    IF scores["medium"] > 0 THEN "medium"
    ELSE IF scores["high"] > 0 THEN "high"
    ELSE "low"

complexity_level(scores) ==
    IF scores["high"] > 0 THEN "high"
    ELSE IF scores["medium"] > 0 THEN "medium"
    ELSE "low"

(* Base weights handed out in the reverse order.                            *)
base_score_reversed(level) ==
    IF level = "high" THEN Frac(3, 10)
    ELSE IF level = "medium" THEN Frac(5, 10)
    ELSE Frac(8, 10)

base_score(level) ==
    IF level = "high" THEN Frac(8, 10)
    ELSE IF level = "medium" THEN Frac(5, 10)
    ELSE Frac(3, 10)

(* A length factor without its cap.                                        *)
length_factor_uncapped(query) == Len(query) * (ScoreUnit \div LengthNorm)

length_factor(query) == Min(Len(query) * (ScoreUnit \div LengthNorm), Frac(2, 10))

(* A boost that looks for the terms as written, capitals included.         *)
tech_boost_case_sensitive(query_lower) ==
    Min(CountMatches(technical_terms, query_lower) * Frac(1, 10), Frac(2, 10))

tech_boost(query_lower) ==
    LET terms == [k \in 1..Len(technical_terms) |-> Lower(technical_terms[k])]
    IN  Min(CountMatches(terms, query_lower) * Frac(1, 10), Frac(2, 10))

question_factor(query) == Min(CountChar(query, "?") * Frac(5, 100), Frac(1, 10))

(* The final score without its cap.                                         *)
final_complexity_uncapped(base, len_f, tech, quest) == base + len_f + tech + quest

final_complexity(base, len_f, tech, quest) == Min(base + len_f + tech + quest, ScoreUnit)

classify_complexity(query) ==
    LET query_lower == Lower(query)
        scores      == keyword_scores(query_lower)
        level       == complexity_level(scores)
        base        == base_score(level)
        len_f       == length_factor(query)
        tech        == tech_boost(query_lower)
        quest       == question_factor(query)
    IN  [score   |-> Round3(final_complexity(base, len_f, tech, quest)),
         level   |-> level,
         factors |-> [base_score      |-> Milli(base),
                      length_factor   |-> Round3(len_f),
                      tech_boost      |-> Round3(tech),
                      question_factor |-> Round3(quest)],
         keyword_matches |-> scores]

----------------------------------------------------------------------------
(* RouteLLMDemo.classify_complexity: the unrounded float, in thousandths   *)
(* (len(query)/200 is 5 thousandths per character).                        *)

Demo_base_score(query_lower) ==
    IF CountMatches(DemoHighKeywords, query_lower) > 0 THEN 700
    ELSE IF CountMatches(DemoMediumKeywords, query_lower) > 0 THEN 500
    ELSE 300

Demo_classify_complexity(query) ==
    Min(Demo_base_score(Lower(query)) + Min(Len(query) * 5, 300), 1000)

----------------------------------------------------------------------------
(* Queries: every concatenation of at most MaxFrags fragments.             *)

MaxFrags == 3
Fragments == DOMAIN Chars
AllQueries == UNION {[1..n -> Fragments] : n \in 0..MaxFrags}

(* The queries sent through the routers: a simple one, a medium one, a     *)
(* complex one, and a long simple one full of technical terms.             *)
RouterQueries ==
    { <<"What is the capital of France?">>,
      <<"How does a neural network work?">>,
      <<"Design a scalable database architecture for high-traffic applications">>,
      <<"What is the capital of France?", " REST API database ",
        "What is the capital of France?">> }

----------------------------------------------------------------------------
(* Money: price per token in nano-dollars (the tables give $ per 1000      *)
(* tokens), cost before rounding in nano-dollars, round(cost, 6) in        *)
(* micro-dollars.                                                          *)

Direct == "DirectOpenAIRouteLLM"
Demo == "RouteLLMDemo"

DirectCosts ==
    ("gpt-4o" :> [input |-> 5000, output |-> 15000])
    @@ ("gpt-4" :> [input |-> 30000, output |-> 60000])
    @@ ("gpt-4o-mini" :> [input |-> 150, output |-> 600])
    @@ ("gpt-4o-nano" :> [input |-> 15, output |-> 60])
    @@ ("gpt-3.5-turbo" :> [input |-> 500, output |-> 1500])

DemoCosts ==
    ("gpt-4" :> [input |-> 30000, output |-> 60000])
    @@ ("gpt-3.5-turbo" :> [input |-> 500, output |-> 1500])

(* A cost that prices the input tokens at the output rate and back.        *)
Cost_rates_swapped(table, model, input_tokens, output_tokens) ==
    input_tokens * table[model].output + output_tokens * table[model].input

Cost(table, model, input_tokens, output_tokens) ==
    input_tokens * table[model].input + output_tokens * table[model].output

Round6(x) == Round(x, 1000)

(* len(query.split()): the maximal runs of non-blank characters.           *)
WordCount(text) ==
    Cardinality({i \in 1..Len(text) :
                    text[i] # " " /\ (i = 1 \/ text[i - 1] = " ")})

----------------------------------------------------------------------------
(* The environment a router is constructed in: each variable unset (<<>>)  *)
(* or set (<<value>>); the threshold in thousandths.  The thresholds are   *)
(* values at which the float comparison of both classes agrees with the    *)
(* exact one.                                                              *)

getenv(e, name, default) == IF e[name] = <<>> THEN default ELSE e[name][1]

Env(key, strong, weak, thr) ==
    [OPENAI_API_KEY |-> key, ROUTELLM_STRONG_MODEL |-> strong,
     ROUTELLM_WEAK_MODEL |-> weak, ROUTELLM_THRESHOLD |-> thr]

Envs ==
    { Env(<<"sk-key">>, <<>>, <<>>, <<>>),
      Env(<<"sk-key">>, <<>>, <<>>, <<550>>),
      Env(<<"sk-key">>, <<"gpt-5">>, <<>>, <<>>),
      Env(<<"sk-key">>, <<>>, <<"gpt-5">>, <<>>),
      Env(<<>>, <<>>, <<>>, <<>>) }

(* What the external services and the tokenizer can answer.                *)
PromptEstimates == {20}
CompletionEstimates == {10}
QueryTokenCounts == {7}
Usages ==
    { [kind |-> "none"],
      [kind |-> "counts", prompt_tokens |-> 25, completion_tokens |-> 12],
      [kind |-> "malformed"] }
Contents == {"none", "text"}
Latencies == {1, 2}

MaxQueries == 2

VARIABLES cpc, query, analysis, complexity,
          cls, env, pc, outcome,
          strong_model, weak_model, threshold, costs,
          total_cost, total_queries, total_latency, model_usage, complexity_stats,
          call, results,
          sem_total_queries, sem_total_latency, route_usage, routed,
          hpc, batch, done, sem_arm, route_arm, sem_result, route_result,
          semantic_results, routellm_results, report,
          metrics, mstats, mcosts, mroutes,
          bpc, queries, batch_results

cvars == <<cpc, query, analysis, complexity>>
config == <<strong_model, weak_model, threshold, costs>>
counters == <<total_cost, total_queries, total_latency, model_usage, complexity_stats>>
rvars == <<cls, env, pc, outcome, config, counters, call, results>>
svars == <<sem_total_queries, sem_total_latency, route_usage, routed>>
arms == <<sem_arm, route_arm, sem_result, route_result>>
hvars == <<hpc, batch, done, arms, semantic_results, routellm_results, report>>
mvars == <<metrics, mstats, mcosts, mroutes>>
bvars == <<bpc, queries, batch_results>>
vars == <<cvars, rvars, svars, hvars, mvars, bvars>>

NoAnalysis == classify_complexity(<<>>)
NoCall == [query |-> <<>>, complexity_score |-> 0, complexity_analysis |-> NoAnalysis,
           selected_model |-> ""]
Completed(op) == [op |-> op, raised |-> "none"]
Raised(op, exception) == [op |-> op, raised |-> exception]

(* MetricsCollector.__init__: nothing recorded, no statistics asked for.    *)
NoStats == [error |-> "not computed"]
InitMetricsVars ==
    /\ metrics = <<>>
    /\ mstats = NoStats
    /\ mcosts = <<>>
    /\ mroutes = <<>>

(* No batch_route_and_execute call is running.                             *)
InitBatchVars ==
    /\ bpc = "idle"
    /\ queries = <<>>
    /\ batch_results = <<>>

InitClassifyVars ==
    /\ cpc = "input"
    /\ analysis = NoAnalysis
    /\ complexity = 0

InitRouterVars ==
    /\ pc = "new"
    /\ outcome = Completed("")
    /\ strong_model = ""
    /\ weak_model = ""
    /\ threshold = 0
    /\ costs = <<>>
    /\ total_cost = 0
    /\ total_queries = 0
    /\ total_latency = 0
    /\ model_usage = <<>>
    /\ complexity_stats = <<>>
    /\ call = NoCall
    /\ results = <<>>

----------------------------------------------------------------------------
(* DirectOpenAIRouteLLM.__init__ and RouteLLMDemo.__init__                 *)

Direct_init ==
    /\ pc = "new"
    /\ cls = Direct
    /\ IF env.OPENAI_API_KEY = <<>>
       THEN /\ pc' = "init_failed"
            /\ outcome' = Raised("__init__", "ValueError")
            /\ UNCHANGED <<config, model_usage, complexity_stats>>
       ELSE /\ pc' = "idle"
            /\ outcome' = Completed("__init__")
            /\ strong_model' = getenv(env, "ROUTELLM_STRONG_MODEL", "gpt-4o-mini")
            /\ weak_model' = getenv(env, "ROUTELLM_WEAK_MODEL", "gpt-4o-nano")
            /\ threshold' = getenv(env, "ROUTELLM_THRESHOLD", 700)
            /\ costs' = DirectCosts
            /\ model_usage' = [m \in {strong_model', weak_model'} |-> 0]
            /\ complexity_stats' = [l \in Levels |-> 0]
    /\ UNCHANGED <<cls, env, total_cost, total_queries, total_latency, call, results>>

Demo_init ==
    /\ pc = "new"
    /\ cls = Demo
    /\ pc' = "idle"
    /\ outcome' = Completed("__init__")
    /\ strong_model' = getenv(env, "ROUTELLM_STRONG_MODEL", "gpt-4")
    /\ weak_model' = getenv(env, "ROUTELLM_WEAK_MODEL", "gpt-3.5-turbo")
    /\ threshold' = getenv(env, "ROUTELLM_THRESHOLD", 700)
    /\ costs' = DemoCosts
    /\ model_usage' = [m \in {strong_model', weak_model'} |-> 0]
    /\ UNCHANGED <<cls, env, total_cost, total_queries, total_latency,
                   complexity_stats, call, results>>

----------------------------------------------------------------------------
(* DirectOpenAIRouteLLM.route_and_execute: route_and_execute_begin is the   *)
(* code up to the chat-completion request; route_and_execute_raise and     *)
(* route_and_execute_return are the rest of the call, once the request has *)
(* raised or returned.                                                     *)

(* classify_complexity on the routed queries, tabulated once.               *)
classify_query(q) == classify_complexity(Text(q))
Demo_classify_query(q) == Demo_classify_complexity(Text(q))
count_words(q) == WordCount(Text(q))

RECURSIVE Tabulate(_, _)
Tabulate(F(_), S) ==
    IF S = {} THEN <<>>
    ELSE LET q == CHOOSE x \in S : TRUE
         IN  (q :> F(q)) @@ Tabulate(F, S \ {q})

complexity_of == Tabulate(classify_query, RouterQueries)
Demo_complexity_of == Tabulate(Demo_classify_query, RouterQueries)
word_count_of == Tabulate(count_words, RouterQueries)


(* The selection with a strict comparison.                                  *)
select_model_strict(score, thr, strong, weak) == IF score > thr THEN strong ELSE weak

select_model(score, thr, strong, weak) == IF score >= thr THEN strong ELSE weak

Tokens(input, output) == [input |-> input, output |-> output, total |-> input + output]

Decision(c, response, tokens, cost, latency, success) ==
    [query      |-> c.query,
     response   |-> response,
     complexity |-> c.complexity_analysis,
     model      |-> c.selected_model,
     tokens     |-> tokens,
     raw_cost   |-> cost,
     cost       |-> Round6(cost),
     latency_ms |-> latency,
     saved      |-> c.selected_model = weak_model,
     success    |-> success]

(* An except branch that forgets to clear the success flag.                 *)
FailedDecision_still_success(c, query_tokens, latency) ==
    Decision(c, "error", Tokens(query_tokens, 0), 0, latency, TRUE)

(* The except branch.                                                      *)
FailedDecision(c, query_tokens, latency) ==
    Decision(c, "error", Tokens(query_tokens, 0), 0, latency, FALSE)

(* A correction that takes the cost off the total and never adds the       *)
(* authoritative cost back.                                                *)
AdjustTotal_no_add_back(total, cost, actual_cost) == total - cost

AdjustTotal(total, cost, actual_cost) == total - cost + actual_cost

(* classify_complexity called on a constructed router: it reads its       *)
(* argument and local tables only, and writes nothing of the router.       *)

(* A classifier that also counts the level it found.                       *)
classify_call_counting(q) ==
    /\ pc = "idle"
    /\ cls = Direct
    /\ query' = q
    /\ cpc' = "classified"
    /\ analysis' = complexity_of[q]
    /\ complexity' = Demo_complexity_of[q]
    /\ complexity_stats' = [complexity_stats EXCEPT ![complexity_of[q].level] = @ + 1]
    /\ UNCHANGED <<cls, env, pc, outcome, config, total_cost, total_queries,
                   total_latency, model_usage, call, results>>

classify_call(q) ==
    /\ pc = "idle"
    /\ cls = Direct
    /\ query' = q
    /\ cpc' = "classified"
    /\ analysis' = complexity_of[q]
    /\ complexity' = Demo_complexity_of[q]
    /\ UNCHANGED rvars

(* A counter update that counts the call twice.                            *)
Counted_twice(usage, key) == [usage EXCEPT ![key] = @ + 2]

(* self.model_usage[selected_model] += 1, and the same for the level.      *)
Counted(usage, key) == [usage EXCEPT ![key] = @ + 1]

route_and_execute_begin(q) ==
    /\ pc = "idle"
    /\ cls = Direct
    /\ Len(results) < MaxQueries
    /\ LET complexity_analysis == complexity_of[q]
           selected_model == select_model(complexity_analysis.score, threshold,
                                          strong_model, weak_model)
       IN  /\ total_queries' = total_queries + 1
           /\ model_usage' = Counted(model_usage, selected_model)
           /\ complexity_stats' = Counted(complexity_stats, complexity_analysis.level)
           /\ call' = [query |-> q,
                       complexity_score |-> complexity_analysis.score,
                       complexity_analysis |-> complexity_analysis,
                       selected_model |-> selected_model]
    /\ pc' = "calling"
    /\ outcome' = Completed("")
    /\ UNCHANGED <<cls, env, config, total_cost, total_latency, results>>

Return(decision) ==
    /\ results' = Append(results, decision)
    /\ total_latency' = total_latency + decision.latency_ms
    /\ pc' = "idle"
    /\ call' = NoCall
    /\ outcome' = Completed("route_and_execute")

route_and_execute_raise(query_tokens, latency) ==
    /\ pc = "calling"
    /\ cls = Direct
    /\ Return(FailedDecision(call, query_tokens, latency))
    /\ UNCHANGED <<cls, env, config, total_cost, total_queries, model_usage,
                   complexity_stats>>

route_and_execute_return(content, usage, prompt_estimate, completion_estimate, query_tokens, latency) ==
    /\ pc = "calling"
    /\ cls = Direct
    /\ LET model == call.selected_model
           input_tokens == prompt_estimate
           output_tokens == IF content = "none" THEN 0 ELSE completion_estimate
       IN  IF model \notin DOMAIN costs
           THEN \* KeyError at the first cost computation
                /\ Return(FailedDecision(call, query_tokens, latency))
                /\ UNCHANGED total_cost
           ELSE LET cost == Cost(costs, model, input_tokens, output_tokens)
                    total == total_cost + cost
                IN  CASE usage.kind = "none" ->
                           /\ Return(Decision(call, content,
                                              Tokens(input_tokens, output_tokens),
                                              cost, latency, TRUE))
                           /\ total_cost' = total
                      [] usage.kind = "malformed" ->
                           \* reading the usage raises after the estimate was added
                           /\ Return(FailedDecision(call, query_tokens, latency))
                           /\ total_cost' = total
                      [] usage.kind = "counts" ->
                           LET actual_cost == Cost(costs, model, usage.prompt_tokens,
                                                   usage.completion_tokens)
                               final_cost == actual_cost
                           IN  /\ Return(Decision(call, content,
                                                  Tokens(usage.prompt_tokens,
                                                         usage.completion_tokens),
                                                  final_cost, latency, TRUE))
                               /\ total_cost' = AdjustTotal(total, final_cost, actual_cost)
    /\ UNCHANGED <<cls, env, config, total_queries, model_usage, complexity_stats>>

----------------------------------------------------------------------------
(* RouteLLMDemo.route_and_execute, up to the await and after it.  The      *)
(* result's "complexity" field, the float rounded to two places, is not    *)
(* modelled.                                                               *)

Demo_route_and_execute_begin(q) ==
    /\ pc = "idle"
    /\ cls = Demo
    /\ Len(results) < MaxQueries
    /\ LET score == Demo_complexity_of[q]
           selected_model == select_model(score, threshold, strong_model, weak_model)
       IN  /\ model_usage' = [model_usage EXCEPT ![selected_model] = @ + 1]
           /\ call' = [query |-> q, complexity_score |-> score,
                       complexity_analysis |-> NoAnalysis,
                       selected_model |-> selected_model]
    /\ pc' = "calling"
    /\ outcome' = Completed("")
    /\ UNCHANGED <<cls, env, config, total_cost, total_queries, total_latency,
                   complexity_stats, results>>

Demo_route_and_execute_end(latency) ==
    /\ pc = "calling"
    /\ cls = Demo
    /\ LET model == call.selected_model
           priced == model \in DOMAIN costs
           \* input_tokens = len(query.split()) * 1.3, output_tokens = 50
           cost == IF priced
                   THEN (word_count_of[call.query] * 13 * costs[model].input) \div 10
                        + 50 * costs[model].output
                   ELSE 0
       IN  /\ total_cost' = total_cost + cost
           /\ results' = Append(results,
                  [query |-> call.query, model |-> model,
                   response |-> IF priced THEN "text" ELSE "error",
                   raw_cost |-> cost, cost |-> Round6(cost), latency_ms |-> latency,
                   saved |-> model = weak_model])
    /\ pc' = "idle"
    /\ call' = NoCall
    /\ outcome' = Completed("route_and_execute")
    /\ UNCHANGED <<cls, env, config, total_queries, total_latency, model_usage,
                   complexity_stats>>

----------------------------------------------------------------------------
(* DirectOpenAIRouteLLM.get_performance_stats and                          *)
(* _display_performance_summary.  Percentages are in hundredths of a       *)
(* percent (round(x, 2)), latencies in hundredths of a millisecond.        *)

Pct2(part, whole) == Round(part * 10000, whole)

get_performance_stats ==
    IF total_queries = 0
    THEN [error |-> "No queries processed yet"]
    ELSE LET hypothetical_all_strong == total_queries * 2000000
             hypothetical_all_weak == total_queries * 100000
             savings_vs_all_strong == hypothetical_all_strong - total_cost
         IN  [total_queries |-> total_queries,
              total_cost |-> Round6(total_cost),
              average_cost_per_query |-> Round(total_cost, 1000 * total_queries),
              average_latency_ms |-> Round(total_latency * 100, total_queries),
              model_usage |-> model_usage,
              complexity_distribution |-> complexity_stats,
              cost_analysis |->
                  [actual_cost |-> Round6(total_cost),
                   hypothetical_all_strong |-> Round6(hypothetical_all_strong),
                   hypothetical_all_weak |-> Round6(hypothetical_all_weak),
                   savings_vs_all_strong |-> Round6(savings_vs_all_strong),
                   \* savings / hypothetical * 100 to two places; the divisor is whole
                   savings_percent |->
                       Round(savings_vs_all_strong, hypothetical_all_strong \div 10000)],
              efficiency |->
                  [weak_model_usage_percent |->
                       Pct2(model_usage[weak_model], total_queries),
                   strong_model_usage_percent |->
                       Pct2(model_usage[strong_model], total_queries)]]

(* The summary printer reads stats['total_queries'] first.                 *)
display_outcome(op, stats) ==
    IF "total_queries" \in DOMAIN stats THEN Completed(op) ELSE Raised(op, "KeyError")

display_performance_summary ==
    /\ pc = "idle"
    /\ cls = Direct
    /\ outcome' = display_outcome("_display_performance_summary", get_performance_stats)
    /\ UNCHANGED <<cls, env, pc, config, counters, call, results>>

----------------------------------------------------------------------------
(* DirectOpenAISemanticRouter.  What self.router(query) can do: raise, or  *)
(* return None, a route choice (whose name may be None), or a string.      *)

NONE == "<None>"

RouteDecisions ==
    { [kind |-> "None"],
      [kind |-> "RouteChoice", name |-> "general_conversation"],
      [kind |-> "RouteChoice", name |-> NONE],
      [kind |-> "str", value |-> "technical_development"],
      [kind |-> "str", value |-> ""] }

RouterAnswers == {[raises |-> TRUE]} \cup {[raises |-> FALSE, value |-> d] : d \in RouteDecisions}

Truthy(d) ==
    CASE d.kind = "None" -> FALSE
      [] d.kind = "str" -> d.value # ""
      [] OTHER -> TRUE

route_name_of(route_decision) ==
    IF Truthy(route_decision)
    THEN IF route_decision.kind = "RouteChoice" THEN route_decision.name
         ELSE route_decision.value
    ELSE "no_match"

(* A count that is kept for the last key only.                             *)
Bump_forgets_others(usage, key) ==
    key :> (IF key \in DOMAIN usage THEN usage[key] + 1 ELSE 1)

(* dict.get(key, 0) + 1                                                    *)
Bump(usage, key) ==
    IF key \in DOMAIN usage THEN [usage EXCEPT ![key] = @ + 1] ELSE usage @@ (key :> 1)

(* route_query from the classifier's answer on: the counters and the       *)
(* returned dict.                                                          *)
route_query_result(q, answer, latency) ==
    LET route_decision == IF answer.raises THEN [kind |-> "None"] ELSE answer.value
    IN  [query |-> q,
         route |-> route_name_of(route_decision),
         latency_ms |-> latency,
         success |-> route_decision.kind # "None"]

route_query_end(q, answer, latency) ==
    /\ sem_total_queries' = sem_total_queries + 1
    /\ sem_total_latency' = sem_total_latency + latency
    /\ route_usage' = Bump(route_usage, route_query_result(q, answer, latency).route)
    /\ routed' = Append(routed, route_query_result(q, answer, latency))

InitSemanticVars ==
    /\ sem_total_queries = 0
    /\ sem_total_latency = 0
    /\ route_usage = <<>>
    /\ routed = <<>>

----------------------------------------------------------------------------
(* OAIRouterComparison.  Costs here are the reported ones, micro-dollars.  *)

ModelChars ==
    ("gpt-4o" :> <<"g","p","t","-","4","o">>)
    @@ ("gpt-4" :> <<"g","p","t","-","4">>)
    @@ ("gpt-4o-mini" :> <<"g","p","t","-","4","o","-","m","i","n","i">>)
    @@ ("gpt-4o-nano" :> <<"g","p","t","-","4","o","-","n","a","n","o">>)
    @@ ("gpt-3.5-turbo" :> <<"g","p","t","-","3",".","5","-","t","u","r","b","o">>)
    @@ ("gpt-5" :> <<"g","p","t","-","5">>)
    @@ ("unknown" :> <<"u","n","k","n","o","w","n">>)

semantic_route_test(q, answer, latency) ==
    LET result == route_query_result(q, answer, latency)
    IN  [method |-> "Semantic Router", query |-> q, route |-> result.route,
         latency_ms |-> result.latency_ms, cost |-> 20, success |-> result.success,
         model_used |-> "text-embedding-3-small"]

(* A response whose content is None makes len(result['response']) raise:   *)
(* the except branch answers.                                              *)
routellm_test(result) ==
    IF result.response = "none"
    THEN [method |-> "RouteLLM", query |-> result.query, route |-> "error",
          latency_ms |-> 0, cost |-> 0, success |-> FALSE, model_used |-> "unknown",
          complexity |-> 0, tokens_used |-> 0]
    ELSE [method |-> "RouteLLM", query |-> result.query, route |-> result.model,
          latency_ms |-> result.latency_ms, cost |-> result.cost,
          success |-> result.success, model_used |-> result.model,
          complexity |-> result.complexity.score, tokens_used |-> result.tokens.total]

RECURSIVE SumOf(_)
SumOf(xs) == IF xs = <<>> THEN 0 ELSE Head(xs) + SumOf(Tail(xs))

(* sum(d.values()) over the keys S of a dict                              *)
RECURSIVE SumOver(_, _)
SumOver(f, S) ==
    IF S = {} THEN 0
    ELSE LET k == CHOOSE x \in S : TRUE IN f[k] + SumOver(f, S \ {k})

latency_of(rs) == [i \in 1..Len(rs) |-> rs[i].latency_ms]
cost_of(rs) == [i \in 1..Len(rs) |-> rs[i].cost]
succeeded(rs) == [i \in 1..Len(rs) |-> IF rs[i].success THEN 1 ELSE 0]
uses_gpt4(rs) ==
    [i \in 1..Len(rs) |->
        IF Contains(<<"g","p","t","-","4">>, ModelChars[rs[i].model_used]) THEN 1 ELSE 0]

(* "Semantic Router" if sem < route else "RouteLLM", on quotients          *)
(* sem_num/sem_den and route_num/route_den.                                *)
lower_wins(sem_num, sem_den, route_num, route_den) ==
    IF sem_num * route_den < route_num * sem_den THEN "Semantic Router" ELSE "RouteLLM"

higher_or_equal_wins(sem_num, sem_den, route_num, route_den) ==
    IF sem_num * route_den >= route_num * sem_den THEN "Semantic Router" ELSE "RouteLLM"

generate_comparison_analysis(sem_rs, route_rs) ==
    IF Len(sem_rs) = 0 \/ Len(route_rs) = 0
    THEN [raised |-> "ZeroDivisionError"]
    ELSE LET strong_model_usage == SumOf(uses_gpt4(route_rs))
         IN  [raised |-> "none",
              latency_winner |-> lower_wins(SumOf(latency_of(sem_rs)), Len(sem_rs),
                                            SumOf(latency_of(route_rs)), Len(route_rs)),
              cost_winner |-> lower_wins(SumOf(cost_of(sem_rs)), 1,
                                         SumOf(cost_of(route_rs)), 1),
              success_winner |->
                  higher_or_equal_wins(SumOf(succeeded(sem_rs)), Len(sem_rs),
                                       SumOf(succeeded(route_rs)), Len(route_rs)),
              strong_model_usage |-> strong_model_usage,
              weak_model_usage |-> Len(route_rs) - strong_model_usage,
              strong_model_percent |-> Pct2(strong_model_usage, Len(route_rs)),
              weak_model_percent |->
                  Pct2(Len(route_rs) - strong_model_usage, Len(route_rs))]

NoResult == [method |-> ""]
NoReport == [raised |-> "", latency_winner |-> ""]

InitHarnessVars ==
    /\ done = 0
    /\ sem_arm = "idle"
    /\ route_arm = "idle"
    /\ sem_result = NoResult
    /\ route_result = NoResult
    /\ semantic_results = <<>>
    /\ routellm_results = <<>>
    /\ report = NoReport

(* The for loop of compare_routers_comprehensive and the event loop under  *)
(* asyncio.gather: the two coroutines become tasks in argument order, and  *)
(* a task runs until it suspends.  Neither coroutine suspends before its   *)
(* request (route_query and the chat completion are blocking calls), so    *)
(* the semantic task runs to its end before the RouteLLM task starts.      *)

StartPair ==
    /\ hpc = "loop"
    /\ done < Len(batch)
    /\ hpc' = "gather"
    /\ sem_arm' = "scheduled"
    /\ route_arm' = "scheduled"
    /\ UNCHANGED <<mvars, bvars, cvars, rvars, svars, batch, done, sem_result, route_result,
                   semantic_results, routellm_results, report>>

SemArmStart ==
    /\ hpc = "gather"
    /\ sem_arm = "scheduled"
    /\ sem_arm' = "calling"
    /\ UNCHANGED <<mvars, bvars, cvars, rvars, svars, hpc, batch, done, route_arm, sem_result,
                   route_result, semantic_results, routellm_results, report>>

SemArmFinish(answer, latency) ==
    /\ hpc = "gather"
    /\ sem_arm = "calling"
    /\ route_query_end(batch[done + 1], answer, latency)
    /\ sem_result' = semantic_route_test(batch[done + 1], answer, latency)
    /\ sem_arm' = "done"
    /\ UNCHANGED <<mvars, bvars, cvars, rvars, hpc, batch, done, route_arm, route_result,
                   semantic_results, routellm_results, report>>

RouteArmStart ==
    /\ hpc = "gather"
    /\ route_arm = "scheduled"
    /\ sem_arm = "done"
    /\ route_and_execute_begin(batch[done + 1])
    /\ route_arm' = "calling"
    /\ UNCHANGED <<mvars, bvars, cvars, svars, hpc, batch, done, sem_arm, sem_result, route_result,
                   semantic_results, routellm_results, report>>

RouteArmFinish(raises, content, usage, prompt_estimate, completion_estimate, query_tokens, latency) ==
    /\ hpc = "gather"
    /\ route_arm = "calling"
    /\ IF raises
       THEN route_and_execute_raise(query_tokens, latency)
       ELSE route_and_execute_return(content, usage, prompt_estimate, completion_estimate,
                                     query_tokens, latency)
    /\ route_result' = routellm_test(results'[Len(results')])
    /\ route_arm' = "done"
    /\ UNCHANGED <<mvars, bvars, cvars, svars, hpc, batch, done, sem_arm, sem_result,
                   semantic_results, routellm_results, report>>

(* A merge that keeps a RouteLLM result only when it succeeded.            *)
Merge_drops_failed ==
    /\ hpc = "gather"
    /\ sem_arm = "done"
    /\ route_arm = "done"
    /\ semantic_results' = Append(semantic_results, sem_result)
    /\ routellm_results' = IF route_result.success THEN Append(routellm_results, route_result)
                           ELSE routellm_results
    /\ done' = done + 1
    /\ hpc' = "loop"
    /\ sem_arm' = "idle"
    /\ route_arm' = "idle"
    /\ sem_result' = NoResult
    /\ route_result' = NoResult
    /\ UNCHANGED <<mvars, bvars, cvars, rvars, svars, batch, report>>

(* A merge that does not wait for the RouteLLM task.                        *)
Merge_without_join ==
    /\ hpc = "gather"
    /\ sem_arm = "done"
    /\ semantic_results' = Append(semantic_results, sem_result)
    /\ routellm_results' = Append(routellm_results, route_result)
    /\ done' = done + 1
    /\ hpc' = "loop"
    /\ sem_arm' = "idle"
    /\ route_arm' = "idle"
    /\ sem_result' = NoResult
    /\ route_result' = NoResult
    /\ pc' = "idle"
    /\ call' = NoCall
    /\ UNCHANGED <<mvars, bvars, cvars, cls, env, outcome, config, counters, results, svars, batch, report>>

Merge ==
    /\ hpc = "gather"
    /\ sem_arm = "done"
    /\ route_arm = "done"
    /\ semantic_results' = Append(semantic_results, sem_result)
    /\ routellm_results' = Append(routellm_results, route_result)
    /\ done' = done + 1
    /\ hpc' = "loop"
    /\ sem_arm' = "idle"
    /\ route_arm' = "idle"
    /\ sem_result' = NoResult
    /\ route_result' = NoResult
    /\ UNCHANGED <<mvars, bvars, cvars, rvars, svars, batch, report>>

Analyse ==
    /\ hpc = "loop"
    /\ done = Len(batch)
    /\ report' = generate_comparison_analysis(semantic_results, routellm_results)
    /\ hpc' = "analysed"
    /\ UNCHANGED <<mvars, bvars, cvars, rvars, svars, batch, done, arms, semantic_results,
                   routellm_results>>

HarnessConstruct ==
    /\ hpc = "new"
    /\ Direct_init
    /\ hpc' = IF pc' = "idle" THEN "loop" ELSE "init_failed"
    /\ UNCHANGED <<mvars, bvars, cvars, svars, batch, done, arms, semantic_results, routellm_results,
                   report>>

----------------------------------------------------------------------------
(* One router object of either class, in an environment of Envs, its       *)
(* operations called in any order.                                         *)

NoHarness ==
    /\ hpc = "off"
    /\ batch = <<>>
    /\ InitHarnessVars
    /\ InitSemanticVars

Init ==
    /\ query = <<>>
    /\ InitClassifyVars
    /\ cls \in {Direct, Demo}
    /\ env \in Envs
    /\ InitRouterVars
    /\ NoHarness
    /\ InitMetricsVars
    /\ InitBatchVars

others == <<cvars, svars, hvars, mvars, bvars>>

Construct == Direct_init /\ UNCHANGED others

DemoConstruct == Demo_init /\ UNCHANGED others

RouteBegin(q) == route_and_execute_begin(q) /\ UNCHANGED others

ApiRaise(query_tokens, latency) ==
    route_and_execute_raise(query_tokens, latency) /\ UNCHANGED others

ApiReturn(content, usage, prompt_estimate, completion_estimate, query_tokens, latency) ==
    /\ route_and_execute_return(content, usage, prompt_estimate, completion_estimate,
                                query_tokens, latency)
    /\ UNCHANGED others

DemoRouteBegin(q) == Demo_route_and_execute_begin(q) /\ UNCHANGED others

DemoRouteEnd(latency) == Demo_route_and_execute_end(latency) /\ UNCHANGED others

DisplayPerformanceSummary == display_performance_summary /\ UNCHANGED others

Next ==
    \/ Construct
    \/ DemoConstruct
    \/ \E q \in RouterQueries : RouteBegin(q)
    \/ \E t \in QueryTokenCounts, l \in Latencies : ApiRaise(t, l)
    \/ \E c \in Contents, u \in Usages, pe \in PromptEstimates, ce \in CompletionEstimates,
          t \in QueryTokenCounts, l \in Latencies : ApiReturn(c, u, pe, ce, t, l)
    \/ \E q \in RouterQueries : DemoRouteBegin(q)
    \/ \E l \in Latencies : DemoRouteEnd(l)
    \/ DisplayPerformanceSummary

Spec == Init /\ [][Next]_vars

----------------------------------------------------------------------------
(* The classifiers as functions of the query.                              *)

InitClassify ==
    /\ query \in AllQueries
    /\ InitClassifyVars
    /\ cls = Direct
    /\ env = Env(<<"sk-key">>, <<>>, <<>>, <<>>)
    /\ InitRouterVars
    /\ NoHarness
    /\ InitMetricsVars
    /\ InitBatchVars

Classify ==
    /\ cpc = "input"
    /\ cpc' = "classified"
    /\ analysis' = classify_complexity(Text(query))
    /\ complexity' = Demo_classify_complexity(Text(query))
    /\ UNCHANGED <<query, rvars, svars, hvars, mvars, bvars>>

NextClassify == Classify

SpecClassify == InitClassify /\ [][NextClassify]_vars

----------------------------------------------------------------------------
(* The comparison harness over a batch of at most MaxQueries queries.      *)

HarnessQueries ==
    { <<"What is the capital of France?">>,
      <<"Design a scalable database architecture for high-traffic applications">> }

Batches == UNION {[1..n -> HarnessQueries] : n \in 1..MaxQueries}

HarnessSemanticAnswers ==
    { [raises |-> TRUE],
      [raises |-> FALSE, value |-> [kind |-> "RouteChoice", name |-> "general_conversation"]] }

HarnessLatencies == {1, 2}
HarnessCallLatencies == {2}

HarnessChatAnswers ==
    { [raises |-> TRUE, content |-> "", usage |-> [kind |-> "none"]],
      [raises |-> FALSE, content |-> "text", usage |-> [kind |-> "none"]],
      [raises |-> FALSE, content |-> "text",
       usage |-> [kind |-> "counts", prompt_tokens |-> 40, completion_tokens |-> 23]],
      [raises |-> FALSE, content |-> "text",
       usage |-> [kind |-> "counts", prompt_tokens |-> 40, completion_tokens |-> 40]],
      [raises |-> FALSE, content |-> "none", usage |-> [kind |-> "none"]] }

InitCompare ==
    /\ query = <<>>
    /\ InitClassifyVars
    /\ cls = Direct
    /\ env \in {Env(<<"sk-key">>, <<>>, <<>>, <<>>), Env(<<>>, <<>>, <<>>, <<>>)}
    /\ InitRouterVars
    /\ InitSemanticVars
    /\ InitHarnessVars
    /\ hpc = "new"
    /\ batch \in Batches
    /\ InitMetricsVars
    /\ InitBatchVars

NextCompare ==
    \/ HarnessConstruct
    \/ StartPair
    \/ SemArmStart
    \/ \E a \in HarnessSemanticAnswers, l \in HarnessLatencies : SemArmFinish(a, l)
    \/ RouteArmStart
    \/ \E a \in HarnessChatAnswers, pe \in PromptEstimates, ce \in CompletionEstimates,
          t \in QueryTokenCounts, l \in HarnessCallLatencies :
          RouteArmFinish(a.raises, a.content, a.usage, pe, ce, t, l)
    \/ Merge
    \/ Analyse

SpecCompare == InitCompare /\ [][NextCompare]_vars

----------------------------------------------------------------------------
(* The classifier called on a query and then on the same query with more   *)
(* text appended to it, again and again.                                   *)

InitGrow ==
    /\ query = <<>>
    /\ InitClassifyVars
    /\ cls = Direct
    /\ env = Env(<<"sk-key">>, <<>>, <<>>, <<>>)
    /\ InitRouterVars
    /\ NoHarness
    /\ InitMetricsVars
    /\ InitBatchVars

ClassifyLonger(frag) ==
    /\ cpc = "classified"
    /\ Len(query) < MaxFrags
    /\ query' = Append(query, frag)
    /\ analysis' = classify_complexity(Text(query'))
    /\ complexity' = Demo_classify_complexity(Text(query'))
    /\ UNCHANGED <<cpc, rvars, svars, hvars, mvars, bvars>>

NextGrow ==
    \/ Classify
    \/ \E frag \in Fragments : ClassifyLonger(frag)

SpecGrow == InitGrow /\ [][NextGrow]_vars

----------------------------------------------------------------------------
(* One DirectOpenAIRouteLLM whose classify_complexity is called between    *)
(* its route_and_execute calls, which succeed or fail.                     *)

InitPure ==
    /\ query = <<>>
    /\ InitClassifyVars
    /\ cls = Direct
    /\ env = Env(<<"sk-key">>, <<>>, <<>>, <<>>)
    /\ InitRouterVars
    /\ NoHarness
    /\ InitMetricsVars
    /\ InitBatchVars

ClassifyCall(q) == classify_call(q) /\ UNCHANGED <<svars, hvars, mvars, bvars>>

PureUsages == {[kind |-> "counts", prompt_tokens |-> 25, completion_tokens |-> 12]}

NextPure ==
    \/ Construct
    \/ \E q \in RouterQueries : ClassifyCall(q)
    \/ \E q \in RouterQueries : RouteBegin(q)
    \/ \E t \in QueryTokenCounts : ApiRaise(t, 1)
    \/ \E u \in PureUsages, pe \in PromptEstimates, ce \in CompletionEstimates,
          t \in QueryTokenCounts : ApiReturn("text", u, pe, ce, t, 1)

SpecPure == InitPure /\ [][NextPure]_vars

----------------------------------------------------------------------------
(* One DirectOpenAIRouteLLM under all of its operations: route_and_execute *)
(* alone or inside batch_route_and_execute, classify_complexity and        *)
(* get_performance_stats.  batch_route_and_execute is its for loop, one    *)
(* route_and_execute per query, and the lines after the loop.              *)

batch_route_and_execute_begin(qs) ==
    /\ pc = "idle"
    /\ cls = Direct
    /\ bpc = "idle"
    /\ Len(results) + Len(qs) <= MaxQueries
    /\ bpc' = "loop"
    /\ queries' = qs
    /\ batch_results' = <<>>
    /\ outcome' = Completed("")
    /\ UNCHANGED <<cls, env, pc, config, counters, call, results>>

(* avg_latency = batch_time / len(queries), then return results            *)
batch_route_and_execute_end ==
    /\ pc = "idle"
    /\ bpc = "loop"
    /\ Len(batch_results) = Len(queries)
    /\ bpc' = "idle"
    /\ outcome' = IF Len(queries) = 0
                  THEN Raised("batch_route_and_execute", "ZeroDivisionError")
                  ELSE Completed("batch_route_and_execute")
    /\ queries' = <<>>
    /\ batch_results' = <<>>
    /\ UNCHANGED <<cls, env, pc, config, counters, call, results>>

BatchBegin(qs) == batch_route_and_execute_begin(qs) /\ UNCHANGED <<cvars, svars, hvars, mvars>>

BatchRouteBegin ==
    /\ bpc = "loop"
    /\ Len(batch_results) < Len(queries)
    /\ RouteBegin(queries[Len(batch_results) + 1])

BatchApiRaise(query_tokens, latency) ==
    /\ bpc = "loop"
    /\ route_and_execute_raise(query_tokens, latency)
    /\ batch_results' = Append(batch_results, results'[Len(results')])
    /\ UNCHANGED <<cvars, svars, hvars, mvars, bpc, queries>>

BatchApiReturn(content, usage, prompt_estimate, completion_estimate, query_tokens, latency) ==
    /\ bpc = "loop"
    /\ route_and_execute_return(content, usage, prompt_estimate, completion_estimate, query_tokens, latency)
    /\ batch_results' = Append(batch_results, results'[Len(results')])
    /\ UNCHANGED <<cvars, svars, hvars, mvars, bpc, queries>>

BatchEnd == batch_route_and_execute_end /\ UNCHANGED <<cvars, svars, hvars, mvars>>

DirectClassifyCall(q) == bpc = "idle" /\ ClassifyCall(q)

SingleRouteBegin(q) == bpc = "idle" /\ RouteBegin(q)

SingleApiRaise(query_tokens, latency) == bpc = "idle" /\ ApiRaise(query_tokens, latency)

SingleApiReturn(content, usage, prompt_estimate, completion_estimate, query_tokens, latency) ==
    /\ bpc = "idle"
    /\ ApiReturn(content, usage, prompt_estimate, completion_estimate, query_tokens, latency)

(* A statistics call that resets the threshold to its default.             *)
GetPerformanceStats_resets_threshold ==
    /\ pc = "idle"
    /\ cls = Direct
    /\ bpc = "idle"
    /\ outcome' = Completed("get_performance_stats")
    /\ threshold' = 700
    /\ UNCHANGED <<cls, env, pc, strong_model, weak_model, costs, counters, call, results>>
    /\ UNCHANGED others

GetPerformanceStats ==
    /\ pc = "idle"
    /\ cls = Direct
    /\ bpc = "idle"
    /\ outcome' = IF "error" \in DOMAIN get_performance_stats
                  THEN Completed("get_performance_stats: error")
                  ELSE Completed("get_performance_stats")
    /\ UNCHANGED <<cls, env, pc, config, counters, call, results>>
    /\ UNCHANGED others

(* A simple query and a long simple one full of technical terms; what the  *)
(* chat-completion request can do.                                         *)
DirectQueries ==
    { <<"What is the capital of France?">>,
      <<"What is the capital of France?", " REST API database ",
        "What is the capital of France?">> }

QueryLists == UNION {[1..n -> DirectQueries] : n \in 0..MaxQueries}

DirectAnswers ==
    { [raises |-> TRUE, usage |-> [kind |-> "none"]],
      [raises |-> FALSE, usage |-> [kind |-> "none"]],
      [raises |-> FALSE, usage |-> [kind |-> "counts", prompt_tokens |-> 25, completion_tokens |-> 12]],
      [raises |-> FALSE, usage |-> [kind |-> "malformed"]] }

RaisingAnswers == {a \in DirectAnswers : a.raises}
ReturningAnswers == {a \in DirectAnswers : ~a.raises}

InitDirect ==
    /\ query = <<>>
    /\ InitClassifyVars
    /\ cls = Direct
    /\ env \in Envs
    /\ InitRouterVars
    /\ NoHarness
    /\ InitMetricsVars
    /\ InitBatchVars

NextDirect ==
    \/ Construct
    \/ \E q \in DirectQueries : DirectClassifyCall(q)
    \/ \E qs \in QueryLists : BatchBegin(qs)
    \/ BatchRouteBegin
    \/ \E a \in RaisingAnswers, t \in QueryTokenCounts : BatchApiRaise(t, 2)
    \/ \E a \in ReturningAnswers, pe \in PromptEstimates, ce \in CompletionEstimates,
          t \in QueryTokenCounts : BatchApiReturn("text", a.usage, pe, ce, t, 2)
    \/ BatchEnd
    \/ \E q \in DirectQueries : SingleRouteBegin(q)
    \/ \E a \in RaisingAnswers, t \in QueryTokenCounts : SingleApiRaise(t, 2)
    \/ \E a \in ReturningAnswers, pe \in PromptEstimates, ce \in CompletionEstimates,
          t \in QueryTokenCounts : SingleApiReturn("text", a.usage, pe, ce, t, 2)
    \/ GetPerformanceStats

SpecDirect == InitDirect /\ [][NextDirect]_vars

----------------------------------------------------------------------------
(* One DirectOpenAISemanticRouter: route_query on whatever the route       *)
(* layer answers, and get_performance_stats.  Rates are in hundredths of a *)
(* percent.                                                                *)

usage_get(usage, key) == IF key \in DOMAIN usage THEN usage[key] ELSE 0

Semantic_get_performance_stats ==
    IF sem_total_queries = 0
    THEN [error |-> "No queries processed yet"]
    ELSE [total_queries |-> sem_total_queries,
          total_latency_ms |-> sem_total_latency,
          routes_used |-> Cardinality(DOMAIN route_usage),
          route_distribution |-> route_usage,
          \* round((1 - no_match / total_queries) * 100, 2)
          success_rate |-> Pct2(sem_total_queries - usage_get(route_usage, "no_match"),
                                sem_total_queries)]

SemanticFrame == UNCHANGED <<cvars, cls, env, pc, config, counters, call, results, hvars, mvars, bvars>>

RouteQuery(q, answer, latency) ==
    /\ sem_total_queries < MaxQueries
    /\ route_query_end(q, answer, latency)
    /\ outcome' = Completed("route_query")
    /\ SemanticFrame

SemanticGetPerformanceStats ==
    /\ outcome' = IF "error" \in DOMAIN Semantic_get_performance_stats
                  THEN Completed("get_performance_stats: error")
                  ELSE Completed("get_performance_stats")
    /\ UNCHANGED svars
    /\ SemanticFrame

InitSemantic ==
    /\ query = <<>>
    /\ InitClassifyVars
    /\ cls = Direct
    /\ env = Env(<<"sk-key">>, <<>>, <<>>, <<>>)
    /\ InitRouterVars
    /\ NoHarness
    /\ InitMetricsVars
    /\ InitBatchVars

NextSemantic ==
    \/ \E q \in HarnessQueries, a \in RouterAnswers, l \in HarnessLatencies : RouteQuery(q, a, l)
    \/ SemanticGetPerformanceStats

SpecSemantic == InitSemantic /\ [][NextSemantic]_vars

----------------------------------------------------------------------------
(* MetricsCollector (utils/metrics.py).  A record keeps the route, the     *)
(* latency in whole milliseconds and the cost in micro-dollars.  Of the    *)
(* statistics, the mean is kept as the fraction sum / count, the median    *)
(* doubled, stdev only as "computed or 0"; the runtime and the throughput, *)
(* which read the clock, are left out.                                     *)

Range(xs) == {xs[i] : i \in 1..Len(xs)}

(* sorted(xs)[k], k counted from 0 as Python does.                         *)
sorted_item(xs, k) ==
    CHOOSE v \in Range(xs) :
        /\ Cardinality({i \in 1..Len(xs) : xs[i] < v}) <= k
        /\ k < Cardinality({i \in 1..Len(xs) : xs[i] <= v})

(* An index taken one sample too far.                                      *)
percentile_index_next_sample(n, percent) == (n * percent) \div 100 + 1

(* int(len(all_latencies) * 0.95) and int(len(all_latencies) * 0.99)       *)
percentile_index(n, percent) == (n * percent) \div 100

median2(xs) ==
    LET n == Len(xs)
    IN  IF n % 2 = 1 THEN 2 * sorted_item(xs, n \div 2)
        ELSE sorted_item(xs, n \div 2 - 1) + sorted_item(xs, n \div 2)

route_count(ms, route) == Cardinality({i \in 1..Len(ms) : ms[i].route = route})

(* self.costs[route] += cost on a defaultdict(float)                       *)
Accumulate(d, key, amount) ==
    IF key \in DOMAIN d THEN [d EXCEPT ![key] = @ + amount] ELSE d @@ (key :> amount)

(* record_routing: the record goes to self.metrics["all"] and to           *)
(* self.metrics[route]; metrics is the list under "all", the only one      *)
(* that is read, which a route called "all" receives twice.                *)
record_routing(route, latency_ms, cost) ==
    LET record == [route |-> route, latency_ms |-> latency_ms, cost |-> cost]
        all == Append(metrics, record)
    IN  /\ metrics' = IF route = "all" THEN Append(all, record) ELSE all
        /\ mcosts' = Accumulate(mcosts, route, cost)
        /\ mroutes' = Bump(mroutes, route)
        /\ outcome' = Completed("record_routing")
        /\ UNCHANGED mstats

get_statistics(ms, cs, rs) ==
    LET n == Len(ms)
        all_latencies == [i \in 1..n |-> ms[i].latency_ms]
        p95 == percentile_index(n, 95)
        p99 == percentile_index(n, 99)
    IN  IF n = 0 THEN [raised |-> "none", stats |-> [error |-> "No metrics collected"]]
        ELSE IF p95 >= n \/ p99 >= n THEN [raised |-> "IndexError", stats |-> NoStats]
        ELSE [raised |-> "none",
              stats |->
                [total_queries |-> n,
                 latency |-> [mean    |-> [sum |-> SumOf(all_latencies), count |-> n],
                              median2 |-> median2(all_latencies),
                              stdev   |-> [computed |-> n > 1],
                              min     |-> CHOOSE v \in Range(all_latencies) :
                                              \A w \in Range(all_latencies) : v <= w,
                              max     |-> CHOOSE v \in Range(all_latencies) :
                                              \A w \in Range(all_latencies) : v >= w,
                              p95     |-> sorted_item(all_latencies, p95),
                              p99     |-> sorted_item(all_latencies, p99)],
                 costs |-> [total |-> SumOver(cs, DOMAIN cs), by_route |-> cs],
                 routes |-> [distribution |-> rs]]]

metrics_get_statistics ==
    LET result == get_statistics(metrics, mcosts, mroutes)
    IN  /\ mstats' = result.stats
        /\ outcome' = IF result.raised = "none" THEN Completed("get_statistics")
                      ELSE Raised("get_statistics", result.raised)
        /\ UNCHANGED <<metrics, mcosts, mroutes>>

metrics_print_summary ==
    LET result == get_statistics(metrics, mcosts, mroutes)
    IN  /\ outcome' = IF result.raised # "none" THEN Raised("print_summary", result.raised)
                      ELSE display_outcome("print_summary", result.stats)
        /\ UNCHANGED <<metrics, mstats, mcosts, mroutes>>

(* The collectors looked at: up to MaxSamples records whose latencies      *)
(* rise, fall, are all equal, or are all small but for one.                *)
MaxSamples == 101
SamplePatterns == {"rising", "falling", "flat", "spike"}

SampleLatency(pattern, n, i) ==
    CASE pattern = "rising"  -> i
      [] pattern = "falling" -> n + 1 - i
      [] pattern = "flat"    -> 7
      [] pattern = "spike"   -> IF i = 1 THEN 1000 ELSE 1

Recorded(pattern, n) ==
    [i \in 1..n |-> [route      |-> IF i % 2 = 1 THEN "general" ELSE "no_match",
                     latency_ms |-> SampleLatency(pattern, n, i),
                     cost       |-> 20]]

InitMetrics ==
    /\ query = <<>>
    /\ InitClassifyVars
    /\ cls = Direct
    /\ env = Env(<<"sk-key">>, <<>>, <<>>, <<>>)
    /\ InitRouterVars
    /\ NoHarness
    /\ InitBatchVars
    /\ mstats = NoStats
    /\ \E pattern \in SamplePatterns, n \in 0..MaxSamples : metrics = Recorded(pattern, n)
    /\ mroutes = [r \in {metrics[i].route : i \in 1..Len(metrics)} |-> route_count(metrics, r)]
    /\ mcosts = [r \in DOMAIN mroutes |-> 20 * mroutes[r]]

MetricsFrame == UNCHANGED <<cvars, cls, env, pc, config, counters, call, results, svars, hvars, bvars>>

GetStatistics == metrics_get_statistics /\ MetricsFrame

PrintSummary == metrics_print_summary /\ MetricsFrame

NextMetrics == GetStatistics \/ PrintSummary

SpecMetrics == InitMetrics /\ [][NextMetrics]_vars

(* A new collector on which up to MaxRecords decisions are recorded, the   *)
(* statistics being asked for in between.                                  *)
MaxRecords == 2
RecordedRoutes == {"general", "no_match", "all"}
RecordedLatencies == {3, 8}
RecordedCosts == {0, 20}

RecordRouting(route, latency_ms, cost) ==
    /\ SumOver(mroutes, DOMAIN mroutes) < MaxRecords
    /\ record_routing(route, latency_ms, cost)
    /\ MetricsFrame

InitRecord ==
    /\ query = <<>>
    /\ InitClassifyVars
    /\ cls = Direct
    /\ env = Env(<<"sk-key">>, <<>>, <<>>, <<>>)
    /\ InitRouterVars
    /\ NoHarness
    /\ InitBatchVars
    /\ InitMetricsVars

NextRecord ==
    \/ \E r \in RecordedRoutes, l \in RecordedLatencies, c \in RecordedCosts : RecordRouting(r, l, c)
    \/ GetStatistics
    \/ PrintSummary

SpecRecord == InitRecord /\ [][NextRecord]_vars

----------------------------------------------------------------------------
(* RouterComparison of combined_comparison.py: the route layer is called   *)
(* directly and the second arm is a simulation.  Costs in micro-dollars.   *)

RouteLayerAnswers ==
    { [raises |-> TRUE],
      [raises |-> FALSE, value |-> [kind |-> "None"]],
      [raises |-> FALSE, value |-> [kind |-> "RouteChoice", name |-> "technical"]],
      [raises |-> FALSE, value |-> [kind |-> "RouteChoice", name |-> NONE]] }

SimulatedLatencies == {50, 51}

(* The dict semantic_route returns when self.semantic_router(query) has    *)
(* returned; nothing in the method catches what that call raises.          *)
semantic_route(result, latency) ==
    [method |-> "Semantic Router",
     route |-> IF result.kind = "None" THEN "no_match" ELSE result.name,
     latency_ms |-> latency,
     cost |-> 10]

routellm_route(q, latency) ==
    LET model == IF Len(Text(q)) > 70 THEN "gpt-4" ELSE "gpt-3.5-turbo"
    IN  [method |-> "RouteLLM",
         route |-> model,
         latency_ms |-> latency,
         cost |-> IF model = "gpt-4" THEN 1000 ELSE 100]

compare_routers_summary(sem_rs, route_rs) ==
    IF Len(sem_rs) = 0 \/ Len(route_rs) = 0
    THEN [raised |-> "ZeroDivisionError"]
    ELSE [raised |-> "none",
          latency_winner |-> lower_wins(SumOf(latency_of(sem_rs)), Len(sem_rs),
                                        SumOf(latency_of(route_rs)), Len(route_rs)),
          cost_winner |-> lower_wins(SumOf(cost_of(sem_rs)), 1, SumOf(cost_of(route_rs)), 1)]

ComparisonFrame == UNCHANGED <<mvars, bvars, cvars, cls, env, pc, config, counters, call, results, svars, batch, route_arm>>

(* sem_result = self.semantic_route(query); semantic_results.append(...)   *)
SemanticRoute(answer, latency) ==
    /\ hpc = "loop"
    /\ done < Len(batch)
    /\ sem_arm = "idle"
    /\ IF answer.raises
       THEN /\ hpc' = "raised"
            /\ outcome' = Raised("compare_routers", "Exception")
            /\ UNCHANGED <<sem_arm, sem_result, semantic_results>>
       ELSE /\ sem_result' = semantic_route(answer.value, latency)
            /\ semantic_results' = Append(semantic_results, sem_result')
            /\ sem_arm' = "done"
            /\ UNCHANGED <<hpc, outcome>>
    /\ UNCHANGED <<done, route_result, routellm_results, report>>
    /\ ComparisonFrame

(* route_result = self.routellm_route(query); routellm_results.append(...) *)
RoutellmRoute(latency) ==
    /\ hpc = "loop"
    /\ sem_arm = "done"
    /\ route_result' = routellm_route(batch[done + 1], latency)
    /\ routellm_results' = Append(routellm_results, route_result')
    /\ done' = done + 1
    /\ sem_arm' = "idle"
    /\ UNCHANGED <<hpc, outcome, sem_result, semantic_results, report>>
    /\ ComparisonFrame

Summarise ==
    /\ hpc = "loop"
    /\ sem_arm = "idle"
    /\ done = Len(batch)
    /\ report' = compare_routers_summary(semantic_results, routellm_results)
    /\ hpc' = "analysed"
    /\ outcome' = Completed("compare_routers")
    /\ UNCHANGED <<done, sem_arm, sem_result, route_result, semantic_results, routellm_results>>
    /\ ComparisonFrame

InitRouterComparison ==
    /\ query = <<>>
    /\ InitClassifyVars
    /\ cls = Direct
    /\ env = Env(<<"sk-key">>, <<>>, <<>>, <<>>)
    /\ InitRouterVars
    /\ InitSemanticVars
    /\ InitHarnessVars
    /\ hpc = "loop"
    /\ batch \in Batches
    /\ InitMetricsVars
    /\ InitBatchVars

NextRouterComparison ==
    \/ \E a \in RouteLayerAnswers, l \in HarnessLatencies : SemanticRoute(a, l)
    \/ \E l \in SimulatedLatencies : RoutellmRoute(l)
    \/ Summarise

SpecRouterComparison == InitRouterComparison /\ [][NextRouterComparison]_vars

----------------------------------------------------------------------------
(* One session: a DirectOpenAIRouteLLM, a DirectOpenAISemanticRouter and a *)
(* MetricsCollector side by side, each under its operations that write.    *)

SessionAnswers ==
    { [raises |-> TRUE],
      [raises |-> FALSE, value |-> [kind |-> "RouteChoice", name |-> "general_conversation"]] }

SessionRoutes == {"general_conversation", "no_match"}

SessionReturns == {a \in ReturningAnswers : a.usage.kind # "malformed"}

InitSession ==
    /\ query = <<>>
    /\ InitClassifyVars
    /\ cls = Direct
    /\ env = Env(<<"sk-key">>, <<>>, <<>>, <<>>)
    /\ InitRouterVars
    /\ NoHarness
    /\ InitMetricsVars
    /\ InitBatchVars

NextSession ==
    \/ Construct
    \/ \E q \in DirectQueries : SingleRouteBegin(q)
    \/ \E a \in RaisingAnswers, t \in QueryTokenCounts : SingleApiRaise(t, 2)
    \/ \E a \in SessionReturns, pe \in PromptEstimates, ce \in CompletionEstimates,
          t \in QueryTokenCounts : SingleApiReturn("text", a.usage, pe, ce, t, 2)
    \/ \E a \in SessionAnswers : RouteQuery(<<"What is the capital of France?">>, a, 1)
    \/ \E r \in SessionRoutes : RecordRouting(r, 3, 20)

SpecSession == InitSession /\ [][NextSession]_vars

----------------------------------------------------------------------------
(* Properties.                                                             *)

ScoreOf(q) == IF cls = Direct THEN complexity_of[q].score ELSE Demo_complexity_of[q]

(* C1: route_and_execute of both classes selects the strong model exactly  *)
(* when the score classify_complexity returns for the query is >= the      *)
(* threshold, and the weak model otherwise; a score equal to the threshold *)
(* selects the strong model.                                               *)
C1_ThresholdSelection ==
    /\ pc = "calling" =>
          /\ call.complexity_score = ScoreOf(call.query)
          /\ call.selected_model \in {strong_model, weak_model}
          /\ (call.selected_model = strong_model) <=> (call.complexity_score >= threshold)
    /\ \A i \in 1..Len(results) :
          /\ results[i].model \in {strong_model, weak_model}
          /\ (results[i].model = strong_model) <=> (ScoreOf(results[i].query) >= threshold)

C1_ScoreEqualsThreshold ==
    /\ pc = "calling"
    /\ call.complexity_score = threshold
    /\ call.selected_model = strong_model
    /\ strong_model # weak_model

(* C2: when the chat-completion request raises, route_and_execute returns  *)
(* normally, and the decision it returns has success false, cost 0 and 0   *)
(* output tokens, and carries the query, the complexity analysis and the   *)
(* selected model of the call.                                             *)
ChatCompletionRaises == \E t \in QueryTokenCounts, l \in Latencies : ApiRaise(t, l)

C2_RaiseIsAbsorbed ==
    [][ChatCompletionRaises =>
          /\ outcome' = Completed("route_and_execute")
          /\ Len(results') = Len(results) + 1
          /\ LET decision == results'[Len(results')]
             IN  /\ decision.success = FALSE
                 /\ decision.cost = 0
                 /\ decision.tokens.output = 0
                 /\ decision.query = call.query
                 /\ decision.complexity = call.complexity_analysis
                 /\ decision.model = call.selected_model]_vars

C2_RaisedOnce ==
    /\ cls = Direct
    /\ pc = "idle"
    /\ Len(results) = 1
    /\ results[1].response = "error"
    /\ results[1].success = FALSE
    /\ results[1].model \in DOMAIN DirectCosts
    /\ total_cost = 0

(* C3: after any sequence of successful route_and_execute calls, with or   *)
(* without authoritative usage counts in the response, total_cost is the   *)
(* sum of the final costs of the returned decisions.                       *)
raw_cost_of(rs) == [i \in 1..Len(rs) |-> rs[i].raw_cost]

C3_TotalIsSumOfFinalCosts ==
    (/\ cls = Direct
     /\ pc = "idle"
     /\ \A i \in 1..Len(results) : results[i].success)
    => total_cost = SumOf(raw_cost_of(results))

(* C4: for every query (the empty one, long ones, any number of keywords,  *)
(* technical terms and question marks) the score classify_complexity       *)
(* returns lies in [0, 1], for both classes.                               *)
C4_ScoreInUnitInterval ==
    cpc = "classified" =>
        /\ analysis.score >= 0
        /\ analysis.score <= 1000
        /\ complexity >= 0
        /\ complexity <= 1000

C4_CapReached ==
    /\ cpc = "classified"
    /\ analysis.score = 1000
    /\ analysis.factors.base_score + analysis.factors.length_factor
           + analysis.factors.tech_boost + analysis.factors.question_factor > 1000

(* C5: a strong or weak model name without a price entry is rejected at    *)
(* construction: no DirectOpenAIRouteLLM is constructed with one, no       *)
(* request is sent for one and no decision is recorded for one.            *)
C5_UnpricedModelIsRejected ==
    cls = Direct =>
        /\ pc \in {"idle", "calling"} =>
              /\ strong_model \in DOMAIN DirectCosts
              /\ weak_model \in DOMAIN DirectCosts
        /\ pc = "calling" => call.selected_model \in DOMAIN DirectCosts
        /\ \A i \in 1..Len(results) : results[i].model \in DOMAIN DirectCosts

(* C6: for each query of the harness both attempts are submitted together, *)
(* each is started whatever the other's outcome, the two results are       *)
(* appended to the result lists only when both attempts have completed,    *)
(* an attempt that fails gives success false for its own arm and leaves    *)
(* the other arm's result as it is, and no exception leaves the pair.      *)
SemanticAttemptEnds(a) == \E l \in HarnessLatencies : SemArmFinish(a, l)

RouteLLMAttemptEnds(a) ==
    \E pe \in PromptEstimates, ce \in CompletionEstimates, t \in QueryTokenCounts,
       l \in HarnessCallLatencies :
        RouteArmFinish(a.raises, a.content, a.usage, pe, ce, t, l)

C6_PairState ==
    /\ Len(semantic_results) = done
    /\ Len(routellm_results) = done
    /\ (sem_arm = "idle") <=> (route_arm = "idle")
    /\ hpc = "gather" <=> sem_arm # "idle"
    /\ hpc \in {"loop", "gather", "analysed"} => outcome.raised = "none"
    /\ sem_arm = "done" => sem_result.query = batch[done + 1]
    /\ route_arm = "done" => route_result.query = batch[done + 1]

C6_PairSteps ==
    /\ (semantic_results' # semantic_results \/ routellm_results' # routellm_results) =>
          /\ sem_arm = "done"
          /\ route_arm = "done"
          /\ semantic_results' = Append(semantic_results, sem_result)
          /\ routellm_results' = Append(routellm_results, route_result)
    /\ \A a \in HarnessSemanticAnswers :
          SemanticAttemptEnds(a) =>
              /\ sem_result'.success = ~a.raises
              /\ route_arm' = route_arm
              /\ route_result' = route_result
    /\ \A a \in HarnessChatAnswers :
          RouteLLMAttemptEnds(a) =>
              /\ a.raises => route_result'.success = FALSE
              /\ (~a.raises /\ a.content = "text") => route_result'.success = TRUE
              /\ sem_arm' = sem_arm
              /\ sem_result' = sem_result
    /\ (route_arm = "scheduled" /\ sem_arm = "done") => ENABLED RouteArmStart

Strategies == {"Semantic Router", "RouteLLM"}

RowIsFair(sem, route, winner) ==
    /\ sem < route => winner = "Semantic Router"
    /\ route < sem => winner = "RouteLLM"
    /\ sem = route => winner \notin Strategies

C7_TieNamesNoWinner ==
    hpc = "analysed" =>
        /\ RowIsFair(SumOf(latency_of(semantic_results)), SumOf(latency_of(routellm_results)),
                     report.latency_winner)
        /\ RowIsFair(SumOf(cost_of(semantic_results)), SumOf(cost_of(routellm_results)),
                     report.cost_winner)

(* C8: for a batch of N >= 1 queries all routed to the weak model the      *)
(* strong usage percentage is 0 and the weak usage percentage is 100, in   *)
(* get_performance_stats and in the harness's model-usage analysis.        *)
C8_AllWeakBatch ==
    (/\ hpc = "analysed"
     /\ total_queries >= 1
     /\ model_usage[weak_model] = total_queries
     /\ \A i \in 1..Len(routellm_results) : routellm_results[i].model_used = weak_model)
    => /\ get_performance_stats.efficiency.strong_model_usage_percent = 0
       /\ get_performance_stats.efficiency.weak_model_usage_percent = 10000
       /\ report.strong_model_percent = 0
       /\ report.weak_model_percent = 10000

(* C9: a statistics or summary operation called with no recorded sample    *)
(* gives a defined "no data" result and does not raise.                    *)
C9_NoDataNeverRaises ==
    (cls = Direct /\ pc = "idle" /\ total_queries = 0) =>
        /\ "error" \in DOMAIN get_performance_stats
        /\ outcome.raised = "none"

(* C10: "What is the capital of France?" is classified low with base score *)
(* 0.3, length factor 0.1, technical-term boost 0, question factor 0.05    *)
(* and score 0.45, and is routed to the weak model at threshold 0.7.       *)
C10_CapitalOfFrance ==
    (cpc = "classified" /\ query = <<"What is the capital of France?">>) =>
        /\ analysis.level = "low"
        /\ analysis.factors.base_score = 300
        /\ analysis.factors.length_factor = 100
        /\ analysis.factors.tech_boost = 0
        /\ analysis.factors.question_factor = 50
        /\ analysis.score = 450
        /\ select_model(analysis.score, 700, "strong", "weak") = "weak"

(* The query of the state as the classifier sees it, and the plain facts   *)
(* about it that the classifier properties speak of.                       *)
QueryText == Text(query)
QueryLower == Lower(QueryText)
HasKeyword(words, text) == \E k \in 1..Len(words) : Contains(words[k], text)
HasHigh == HasKeyword(HighKeywords, QueryLower)
HasMedium == HasKeyword(MediumKeywords, QueryLower)
HasLow == HasKeyword(LowKeywords, QueryLower)

(* C11: at threshold 0.7 every query containing a high-tier keyword is     *)
(* classified high with base score 0.8 and final score >= 0.8, and the     *)
(* selection picks the strong model, whatever else the query contains.     *)
C11_HighKeywordIsStrong ==
    (cpc = "classified" /\ HasHigh) =>
        /\ analysis.level = "high"
        /\ analysis.factors.base_score = 800
        /\ analysis.score >= 800
        /\ select_model(analysis.score, 700, "strong", "weak") = "strong"

C11_HighAmongLowerTiers ==
    /\ cpc = "classified"
    /\ HasHigh /\ HasMedium /\ HasLow
    /\ CountChar(QueryText, "?") >= 1
    /\ analysis.level = "high"
    /\ analysis.score < 1000

(* The factors as the specification words them, in units of 1/3000: 0.3   *)
(* is 900, a character is 10, a technical term 300, a question mark 150.   *)
NoKeyword == ~HasHigh /\ ~HasMedium /\ ~HasLow
TermsPresent ==
    {k \in 1..Len(technical_terms) : Contains(Lower(technical_terms[k]), QueryLower)}
ExpectedLength == Min(10 * Len(QueryText), 600)
ExpectedTech == Min(300 * Cardinality(TermsPresent), 600)
ExpectedQuestion == Min(150 * CountChar(QueryText, "?"), 300)

TopTier == IF HasHigh THEN "high" ELSE IF HasMedium THEN "medium" ELSE "low"
TopWeight == IF HasHigh THEN 2400 ELSE IF HasMedium THEN 1500 ELSE 900

(* C13: level and base score follow the strict precedence high > medium >  *)
(* low over the tiers with a match: only the top matching tier's weight    *)
(* (0.8 / 0.5 / 0.3) enters the score, lower tiers add nothing, and the    *)
(* number of matches inside a tier does not change the score.              *)
C13_TopTierOnly ==
    cpc = "classified" =>
        /\ analysis.level = TopTier
        /\ analysis.factors.base_score * 3 = TopWeight
        /\ analysis.score =
              Round(Min(TopWeight + ExpectedLength + ExpectedTech + ExpectedQuestion, 3000), 3)

C13_SeveralTiersSeveralMatches ==
    /\ cpc = "classified"
    /\ analysis.keyword_matches.high = 800
    /\ analysis.keyword_matches.medium >= 1000
    /\ analysis.keyword_matches.low >= 600
    /\ analysis.level = "high"
    /\ analysis.score < 1000

(* C20: the reported score is min(1.0, base_score + length_factor +        *)
(* tech_boost + question_factor) of the factor values reported in the same *)
(* result, and each reported factor is non-negative and within its cap:    *)
(* length_factor <= 0.2, tech_boost <= 0.2, question_factor <= 0.1.        *)
C20_ScoreIsCappedSumOfFactors ==
    cpc = "classified" =>
        LET f == analysis.factors
        IN  /\ analysis.score =
                  Min(1000, f.base_score + f.length_factor + f.tech_boost + f.question_factor)
            /\ f.base_score >= 0
            /\ f.length_factor >= 0 /\ f.length_factor <= 200
            /\ f.tech_boost >= 0 /\ f.tech_boost <= 200
            /\ f.question_factor >= 0 /\ f.question_factor <= 100

C20_FactorsAtTheirCaps ==
    /\ cpc = "classified"
    /\ Len(QueryText) > 60
    /\ Cardinality(TermsPresent) >= 2
    /\ CountChar(QueryText, "?") >= 2
    /\ analysis.factors.length_factor = 200
    /\ analysis.factors.tech_boost = 200
    /\ analysis.factors.question_factor = 100
    /\ analysis.score < 1000

HighMatched(text) == {k \in 1..Len(HighKeywords) : Contains(HighKeywords[k], Lower(text))}
TermsMatched(text) ==
    {k \in 1..Len(technical_terms) : Contains(Lower(technical_terms[k]), Lower(text))}

(* C14: when text that adds matched high-tier keywords is added to a       *)
(* query, and the length factor and the set of technical terms present     *)
(* stay the same, the score of the longer query is not below the score of  *)
(* the query without it.                                                   *)
C14_MoreHighKeywordsNeverLower ==
    [][(/\ cpc = "classified"
        /\ cpc' = "classified"
        /\ HighMatched(Text(query)) # HighMatched(Text(query'))
        /\ HighMatched(Text(query)) \subseteq HighMatched(Text(query'))
        /\ analysis'.factors.length_factor = analysis.factors.length_factor
        /\ TermsMatched(Text(query')) = TermsMatched(Text(query)))
       => analysis'.score >= analysis.score]_vars

C14_HighKeywordAdded ==
    /\ cpc = "classified"
    /\ Len(query) >= 2
    /\ query[Len(query)] = " debug"
    /\ LET before == classify_complexity(Text(SubSeq(query, 1, Len(query) - 1)))
       IN  /\ before.level # "high"
           /\ before.factors.length_factor = analysis.factors.length_factor
           /\ before.factors.tech_boost = analysis.factors.tech_boost
           /\ before.score < analysis.score

(* C15: classify_complexity gives the same result for a query whatever    *)
(* classify_complexity and route_and_execute calls, successful or failed,  *)
(* came before on the router, and a classify_complexity call leaves        *)
(* total_queries, total_cost, total_latency, model_usage and               *)
(* complexity_stats unchanged.                                             *)
C15_SameResult ==
    /\ cpc = "classified" => analysis = classify_complexity(Text(query))
    /\ pc = "calling" => call.complexity_analysis = classify_complexity(Text(call.query))
    /\ \A i \in 1..Len(results) :
          results[i].complexity = classify_complexity(Text(results[i].query))

C15_NoCounterTouched ==
    (\E q \in RouterQueries : ClassifyCall(q)) =>
        /\ total_queries' = total_queries
        /\ total_cost' = total_cost
        /\ total_latency' = total_latency
        /\ model_usage' = model_usage
        /\ complexity_stats' = complexity_stats

C15_Pure == []C15_SameResult /\ [][C15_NoCounterTouched]_vars

C15_ClassifiedAfterHistory ==
    /\ cpc = "classified"
    /\ Len(results) = 2
    /\ results[1].success /\ ~results[2].success
    /\ results[1].query = query
    /\ results[2].query # query
    /\ total_queries = 2
    /\ total_cost > 0
    /\ analysis = results[1].complexity

(* C16: the cost of every successful decision is input tokens x input     *)
(* price / 1000 + output tokens x output price / 1000, rounded to 6        *)
(* places, with the prices of the decision's model and the token counts of *)
(* the same decision (the usage counts when the response carried them;     *)
(* for RouteLLMDemo, which reports no counts, 1.3 per word and 50).        *)
C16_CostFromReportedTokens ==
    \A i \in 1..Len(results) :
        LET r == results[i]
        IN  /\ (cls = Direct /\ r.success) =>
                  /\ r.model \in DOMAIN DirectCosts
                  /\ r.cost = Round(r.tokens.input * DirectCosts[r.model].input
                                    + r.tokens.output * DirectCosts[r.model].output, 1000)
            /\ (cls = Demo /\ r.response # "error") =>
                  /\ r.model \in DOMAIN DemoCosts
                  /\ r.cost = Round((WordCount(Text(r.query)) * 13 * DemoCosts[r.model].input
                                     + 500 * DemoCosts[r.model].output) \div 10, 1000)

C16_UsageCountsPriced ==
    /\ cls = Direct
    /\ Len(results) = 2
    /\ results[1].success
    /\ results[1].model = "gpt-4o-mini"
    /\ results[1].tokens = [input |-> 25, output |-> 12, total |-> 37]
    /\ results[1].cost = 11
    /\ results[2].success
    /\ results[2].model = "gpt-4o-nano"
    /\ results[2].tokens = [input |-> 20, output |-> 0, total |-> 20]
    /\ results[2].cost = 0

(* C17: the cost computed for non-negative token counts is >= 0, and in   *)
(* every reachable state of the router total_cost is >= 0.                 *)
C17_CostsNeverNegative ==
    /\ total_cost >= 0
    /\ \A i \in 1..Len(results) : results[i].raw_cost >= 0 /\ results[i].cost >= 0
    /\ \A model \in DOMAIN costs, input_tokens \in {0, 1, 25}, output_tokens \in {0, 1, 12} :
          Cost(costs, model, input_tokens, output_tokens) >= 0

C17_CorrectedUpwards ==
    /\ cls = Direct
    /\ pc = "idle"
    /\ Len(results) = 1
    /\ results[1].success
    /\ results[1].tokens.input = 25
    /\ total_cost > 0
    /\ total_cost < results[1].raw_cost

(* v is what stands at index k, counted from 0, once the recorded          *)
(* latencies are put in ascending order.                                   *)
AtSortedIndex(v, k) ==
    /\ \E i \in 1..Len(metrics) : metrics[i].latency_ms = v
    /\ Cardinality({i \in 1..Len(metrics) : metrics[i].latency_ms < v}) <= k
    /\ Cardinality({i \in 1..Len(metrics) : metrics[i].latency_ms <= v}) >= k + 1

(* C18: for every n >= 1 recorded samples get_statistics returns as p95    *)
(* and p99 the elements of the sorted samples at index floor(n * 0.95) and *)
(* floor(n * 0.99), both indices are within 0..n-1 so that nothing is      *)
(* raised, and with one sample both are that sample.                       *)
C18_PercentilesInRange ==
    (outcome.op = "get_statistics" /\ Len(metrics) >= 1) =>
        LET n == Len(metrics)
            k95 == (n * 95) \div 100
            k99 == (n * 99) \div 100
        IN  /\ outcome.raised = "none"
            /\ k95 \in 0..(n - 1)
            /\ k99 \in 0..(n - 1)
            /\ AtSortedIndex(mstats.latency.p95, k95)
            /\ AtSortedIndex(mstats.latency.p99, k99)
            /\ n = 1 => /\ mstats.latency.p95 = metrics[1].latency_ms
                        /\ mstats.latency.p99 = metrics[1].latency_ms

C18_PercentilesBelowMaximum ==
    /\ outcome = Completed("get_statistics")
    /\ Len(metrics) = 101
    /\ metrics[1].latency_ms = 101
    /\ metrics[101].latency_ms = 1
    /\ mstats.latency.p95 = 96
    /\ mstats.latency.p99 = 100
    /\ mstats.latency.max = 101

(* C19: when the embedding route classifier raises for a query, the        *)
(* fixed-category arm does not let the error through: the query is         *)
(* recorded under route "no_match" with success false, and the harness     *)
(* receives a failed result for that arm.  Stated for the step of          *)
(* RouterComparison.compare_routers in which the route layer raises.       *)
C19_ClassifierErrorIsNoMatch ==
    [][\A l \in HarnessLatencies :
          SemanticRoute([raises |-> TRUE], l) =>
              /\ hpc' = "loop"
              /\ outcome'.raised = "none"
              /\ Len(semantic_results') = Len(semantic_results) + 1
              /\ sem_result'.route = "no_match"
              /\ "success" \in DOMAIN sem_result'
              /\ sem_result'.success = FALSE]_vars

(* The calls made so far, the one at its request included, by selected     *)
(* model and by level.                                                     *)
CallsOfModel(m) ==
    Cardinality({i \in 1..Len(results) : results[i].model = m})
    + (IF pc = "calling" /\ call.selected_model = m THEN 1 ELSE 0)

CallsOfLevel(l) ==
    Cardinality({i \in 1..Len(results) : results[i].complexity.level = l})
    + (IF pc = "calling" /\ call.complexity_analysis.level = l THEN 1 ELSE 0)

(* C21: every route_and_execute call of DirectOpenAIRouteLLM, finished     *)
(* with success or with failure or still at its request, has added 1 to    *)
(* total_queries, 1 to the usage counter of its selected model and to no    *)
(* other, and 1 to the counter of its level and to no other; so the        *)
(* model_usage values and the complexity_stats values each sum to          *)
(* total_queries.                                                          *)
C21_EveryCallCountedOnce ==
    pc \in {"idle", "calling"} =>
        /\ total_queries = Len(results) + (IF pc = "calling" THEN 1 ELSE 0)
        /\ \A m \in DOMAIN model_usage : model_usage[m] = CallsOfModel(m)
        /\ \A l \in DOMAIN complexity_stats : complexity_stats[l] = CallsOfLevel(l)
        /\ SumOver(model_usage, DOMAIN model_usage) = total_queries
        /\ SumOver(complexity_stats, DOMAIN complexity_stats) = total_queries

C21_FailedAndSucceededCounted ==
    /\ pc = "idle"
    /\ total_queries = 2
    /\ ~results[1].success
    /\ results[2].success
    /\ results[1].model = strong_model
    /\ results[2].model = weak_model
    /\ model_usage[strong_model] = 1
    /\ model_usage[weak_model] = 1
    /\ complexity_stats["low"] = 2

(* C22: the statistics of a MetricsCollector are a function of the         *)
(* recorded decisions alone: after any record_routing calls, with any      *)
(* route names, total_queries is the number of calls, routes[r] the number *)
(* of recorded decisions with route r, costs[r] the sum of their costs,    *)
(* costs.total the sum of all recorded costs, and the latency statistics   *)
(* are over one latency sample per call.  Every call adds 1 to exactly one *)
(* entry of self.routes, so their sum is the number of calls.              *)
RecordCalls == SumOver(mroutes, DOMAIN mroutes)

C22_StatisticsFollowTheCalls ==
    (outcome = Completed("get_statistics") /\ RecordCalls > 0) =>
        /\ mstats.total_queries = RecordCalls
        /\ mstats.latency.mean.count = RecordCalls
        /\ Len(metrics) = RecordCalls
        /\ \A r \in DOMAIN mstats.routes.distribution :
              /\ mstats.routes.distribution[r] = route_count(metrics, r)
              /\ mstats.costs.by_route[r] =
                     SumOf([i \in 1..Len(metrics) |->
                               IF metrics[i].route = r THEN metrics[i].cost ELSE 0])
        /\ mstats.costs.total = SumOf([i \in 1..Len(metrics) |-> metrics[i].cost])

(* C23: compare_routers_comprehensive handles one query at a time.  While  *)
(* an attempt of either arm is under way, both attempts of every earlier   *)
(* query are complete and merged and the attempt is for the next query of  *)
(* the batch; the i-th entries of semantic_results and routellm_results    *)
(* are results for the i-th query; after a batch of N queries both lists   *)
(* have length N.                                                          *)
C23_OnePairAtATime ==
    /\ Len(semantic_results) = done
    /\ Len(routellm_results) = done
    /\ \A i \in 1..done :
          /\ semantic_results[i] # NoResult
          /\ semantic_results[i].query = batch[i]
          /\ routellm_results[i] # NoResult
          /\ routellm_results[i].query = batch[i]
    /\ (sem_arm # "idle" \/ route_arm # "idle") =>
          /\ hpc = "gather"
          /\ done < Len(batch)
    /\ sem_arm = "done" => sem_result.query = batch[done + 1]
    /\ route_arm = "calling" => pc = "calling" /\ call.query = batch[done + 1]
    /\ route_arm = "done" => route_result.query = batch[done + 1]
    /\ (pc = "calling") = (route_arm = "calling")
    /\ hpc = "analysed" =>
          /\ Len(semantic_results) = Len(batch)
          /\ Len(routellm_results) = Len(batch)

C23_SecondPairUnderWay ==
    /\ hpc = "gather"
    /\ Len(batch) = 2
    /\ batch[1] # batch[2]
    /\ done = 1
    /\ sem_arm = "done"
    /\ route_arm = "calling"
    /\ call.query = batch[2]
    /\ semantic_results[1].query = batch[1]
    /\ routellm_results[1].query = batch[1]

(* C24: the counters of a router (total_queries, model_usage,              *)
(* complexity_stats, total_cost, total_latency) change only once the       *)
(* request of the attempt has returned or raised: no step that leaves the  *)
(* request still under way changes any of them.                            *)
C24_CountersWaitForTheRequest ==
    [][pc' = "calling" =>
          UNCHANGED <<total_queries, model_usage, complexity_stats, total_cost,
                      total_latency>>]_vars

Constructed == pc \in {"idle", "calling"}

(* C25: once a DirectOpenAIRouteLLM is constructed, classify_complexity,   *)
(* route_and_execute, batch_route_and_execute and get_performance_stats    *)
(* leave the price table, the threshold and the two model names alone:     *)
(* in every state they are what the constructor set from the environment.  *)
C25_ConfigurationFixed ==
    /\ [](Constructed =>
            /\ costs = DirectCosts
            /\ threshold = getenv(env, "ROUTELLM_THRESHOLD", 700)
            /\ strong_model = getenv(env, "ROUTELLM_STRONG_MODEL", "gpt-4o-mini")
            /\ weak_model = getenv(env, "ROUTELLM_WEAK_MODEL", "gpt-4o-nano"))
    /\ [][Constructed => UNCHANGED <<costs, threshold, strong_model, weak_model>>]_vars

C25_AfterEveryOperation ==
    /\ outcome = Completed("get_performance_stats")
    /\ Len(results) = 2
    /\ cpc = "classified"
    /\ threshold = 550
    /\ costs = DirectCosts
    /\ strong_model = "gpt-4o-mini"
    /\ weak_model = "gpt-4o-nano"

(* C27: a route_and_execute call that ends with success false leaves       *)
(* total_cost as it was, wherever in the guarded block the error was       *)
(* raised: at the request, at the token counting or cost computation, or   *)
(* at the reading of the response's usage.                                 *)
C27_FailedCallCostsNothing ==
    [][(/\ cls = Direct
        /\ Len(results') = Len(results) + 1
        /\ ~results'[Len(results')].success)
       => total_cost' = total_cost]_vars

(* C30: at the default threshold 0.7 a query that classify_complexity      *)
(* tags with level "low" is never routed to the strong model by            *)
(* route_and_execute, whatever its length, technical terms and question    *)
(* marks.                                                                  *)
C30_LowLevelStaysOnWeakModel ==
    (cls = Direct /\ Constructed /\ threshold = 700) =>
        /\ \A i \in 1..Len(results) :
              results[i].complexity.level = "low" => results[i].model # strong_model
        /\ (pc = "calling" /\ call.complexity_analysis.level = "low") =>
              call.selected_model # strong_model

(* C28: a batch operation given an empty list of queries terminates        *)
(* normally with an empty result list and unchanged counters, without      *)
(* dividing by the batch size.  Stated for the step that ends              *)
(* DirectOpenAIRouteLLM.batch_route_and_execute([]).                       *)
C28_EmptyBatchReturnsEmptyList ==
    [][(bpc = "loop" /\ queries = <<>> /\ bpc' = "idle") =>
          /\ outcome' = Completed("batch_route_and_execute")
          /\ batch_results = <<>>
          /\ UNCHANGED counters]_vars

(* C29: in DirectOpenAISemanticRouter a routed query's result has success  *)
(* false exactly when its route is "no_match", whatever the classifier     *)
(* returned (a route object, a string, None or another falsy value); so    *)
(* the success_rate of get_performance_stats is the percentage of returned *)
(* results with success true, and the route_usage counts sum to            *)
(* total_queries.                                                          *)
C29_FailedExactlyWhenNoMatch ==
    /\ \A i \in 1..Len(routed) : (routed[i].success = FALSE) <=> (routed[i].route = "no_match")
    /\ SumOver(route_usage, DOMAIN route_usage) = sem_total_queries
    /\ Len(routed) = sem_total_queries
    /\ sem_total_queries > 0 =>
          Semantic_get_performance_stats.success_rate =
              Pct2(Cardinality({i \in 1..Len(routed) : routed[i].success}), Len(routed))

NeverLess(f, g) == \A k \in DOMAIN f : k \in DOMAIN g /\ g[k] >= f[k]

(* C26: within one router or collector instance nothing is deleted or      *)
(* reset: total_queries, every model_usage, complexity_stats and           *)
(* route_usage counter, total_cost, total_latency and the length of the    *)
(* recorded metrics list never decrease, and all of them are zero or       *)
(* empty in a newly constructed instance.                                  *)
C26_NothingDecreases ==
    /\ sem_total_queries = 0 /\ sem_total_latency = 0 /\ route_usage = <<>>
    /\ metrics = <<>>
    /\ [](outcome = Completed("__init__") =>
             /\ total_queries = 0
             /\ total_cost = 0
             /\ total_latency = 0
             /\ \A m \in DOMAIN model_usage : model_usage[m] = 0
             /\ \A l \in DOMAIN complexity_stats : complexity_stats[l] = 0)
    /\ [][/\ total_queries' >= total_queries
          /\ total_cost' >= total_cost
          /\ total_latency' >= total_latency
          /\ NeverLess(model_usage, model_usage')
          /\ NeverLess(complexity_stats, complexity_stats')
          /\ NeverLess(route_usage, route_usage')
          /\ Len(metrics') >= Len(metrics)]_vars

C26_EveryInstanceHasGrown ==
    /\ total_queries = 2
    /\ total_cost > 0
    /\ total_latency > 0
    /\ model_usage[strong_model] = 1
    /\ model_usage[weak_model] = 1
    /\ complexity_stats["low"] = 2
    /\ DOMAIN route_usage = {"general_conversation", "no_match"}
    /\ Len(metrics) = 2

====
